---- MODULE Spec2Model ----
(***************************************************************************)
(* Model of program_macropad.py: the programmer of the 12-key + 2-knob     *)
(* macro pad (USB 1189:8840).  The state machine follows main(): load the  *)
(* configuration, open the device, write the buttons, write the layer      *)
(* configs, save, read back layer 1 and verify.  Every frame handed to     *)
(* send(), every time.sleep() and every ep_in.read() is one step and is    *)
(* recorded in the history variable log.                                   *)
(*                                                                         *)
(* Python values that may be a str or an int are records with a tag t:     *)
(*   K(s)  a str, N(n) an int, D(n) a str of decimal digits, Absent a      *)
(*   missing dict entry.                                                   *)
(* A JSON string of a binding is the sequence of the tokens that           *)
(* value.lower().split("+") yields (so "+" in value is Len(toks) > 1).     *)
(* The OUT endpoint is taken to accept every frame: ep.write does not      *)
(* raise.                                                                  *)
(***************************************************************************)
EXTENDS Integers, Sequences, FiniteSets, TLC

\* ------------------------------------------------------------- bounds
\* longest macro of the macro family of configurations (capacity is 27)
MaxKeys == 28
\* most button entries of one configuration of the sequencing family
MaxBindings == 2
\* most varied responses the device delivers on IN during one run
MaxResp == 1

\* ---------------------------------------------------------- constants
REPORT_SIZE == 65
BUTTONS_PER_LAYER == 24
NUM_LAYERS == 3

\* ------------------------------------------------------- Python values
K(s) == [t |-> "str", s |-> s, n |-> 0]
N(n) == [t |-> "int", s |-> "", n |-> n]
D(n) == [t |-> "digits", s |-> "", n |-> n]
Absent == [t |-> "absent", s |-> "", n |-> 0]

\* dict.get(name, default)
Get(v, default) == IF v.t = "absent" THEN default ELSE v

RECURSIVE BitOr(_, _)
\* a | b on non-negative ints
BitOr(a, b) ==
    IF a = 0 THEN b
    ELSE IF b = 0 THEN a
    ELSE (IF (a % 2 = 1) \/ (b % 2 = 1) THEN 1 ELSE 0) + 2 * BitOr(a \div 2, b \div 2)

\* x & 0xFF and x & 0x0F on non-negative ints
And255(x) == x % 256
And15(x) == x % 16

Zeros(n) == [i \in 1..n |-> 0]

\* s[:n]
Take(s, n) == IF Len(s) <= n THEN s ELSE SubSeq(s, 1, n)

\* ------------------------------------------------------- symbol tables
MODIFIER ==
    [none |-> 0, ctrl |-> 1, control |-> 1, lctrl |-> 1,
     shift |-> 2, lshift |-> 2,
     alt |-> 4, option |-> 4, lalt |-> 4,
     meta |-> 8, win |-> 8, cmd |-> 8, gui |-> 8]

KEY ==
    [none |-> 0,
     a |-> 4, b |-> 5, c |-> 6, d |-> 7, e |-> 8, f |-> 9,
     g |-> 10, h |-> 11, i |-> 12, j |-> 13, k |-> 14, l |-> 15,
     m |-> 16, n |-> 17, o |-> 18, p |-> 19, q |-> 20, r |-> 21,
     s |-> 22, t |-> 23, u |-> 24, v |-> 25, w |-> 26, x |-> 27,
     y |-> 28, z |-> 29,
     enter |-> 40, return |-> 40, esc |-> 41, escape |-> 41,
     backspace |-> 42, tab |-> 43, space |-> 44,
     minus |-> 45, equal |-> 46, lbracket |-> 47, rbracket |-> 48,
     backslash |-> 49, semicolon |-> 51, quote |-> 52, grave |-> 53,
     comma |-> 54, period |-> 55, slash |-> 56, capslock |-> 57,
     f1 |-> 58, f2 |-> 59, f3 |-> 60, f4 |-> 61, f5 |-> 62,
     f6 |-> 63, f7 |-> 64, f8 |-> 65, f9 |-> 66, f10 |-> 67,
     f11 |-> 68, f12 |-> 69,
     printscreen |-> 70, scrolllock |-> 71, pause |-> 72,
     insert |-> 73, home |-> 74, pageup |-> 75,
     delete |-> 76, end |-> 77, pagedown |-> 78,
     right |-> 79, left |-> 80, down |-> 81, up |-> 82,
     f13 |-> 104, f14 |-> 105, f15 |-> 106, f16 |-> 107,
     f17 |-> 108, f18 |-> 109, f19 |-> 110, f20 |-> 111,
     f21 |-> 112, f22 |-> 113, f23 |-> 114, f24 |-> 115,
     mute |-> 127, volume_up |-> 128, volume_down |-> 129]
    @@ ("1" :> 30) @@ ("2" :> 31) @@ ("3" :> 32) @@ ("4" :> 33) @@ ("5" :> 34)
    @@ ("6" :> 35) @@ ("7" :> 36) @@ ("8" :> 37) @@ ("9" :> 38) @@ ("0" :> 39)

BUTTON_NAMES ==
    [key1 |-> 1, key2 |-> 2, key3 |-> 3, key4 |-> 4,
     key5 |-> 5, key6 |-> 6, key7 |-> 7, key8 |-> 8,
     key9 |-> 9, key10 |-> 10, key11 |-> 11, key12 |-> 12,
     knob1_left |-> 21, knob1_press |-> 20, knob1_right |-> 19,
     knob2_left |-> 16, knob2_press |-> 17, knob2_right |-> 18]

LED_COLORS ==
    [off |-> 0, red |-> 1, orange |-> 2, yellow |-> 3, green |-> 4,
     cyan |-> 5, blue |-> 6, purple |-> 7]

LED_EFFECTS ==
    [off |-> 0, static |-> 1, ripple |-> 2, wave |-> 3, reactive |-> 4, white |-> 5]

\* ------------------------------------------------------ LED resolution
\* A result that may be an exception: ok = FALSE stands for the raise.
Ok(v) == [ok |-> TRUE, val |-> v]
Raise == [ok |-> FALSE, val |-> <<>>]

resolve_led_color(val) ==
    IF val.t = "int" THEN Ok(And15(val.n))
    ELSE IF val.t = "str" /\ val.s \in DOMAIN LED_COLORS THEN Ok(LED_COLORS[val.s])
    ELSE IF val.t = "digits" THEN Ok(And15(val.n))
    ELSE Raise

resolve_led_effect(val) ==
    IF val.t = "int" THEN Ok(And15(val.n))
    ELSE IF val.t = "str" /\ val.s \in DOMAIN LED_EFFECTS THEN Ok(LED_EFFECTS[val.s])
    ELSE IF val.t = "digits" THEN Ok(And15(val.n))
    ELSE Raise

\* mutant of make_led_byte: the nibbles are swapped
make_led_byte_swapped(effect, color) == BitOr(And15(effect) * 16, And15(color))

make_led_byte(effect, color) == BitOr(And15(color) * 16, And15(effect))

\* JSON led specs: none (no "led" entry), a string, a dict, anything else
LedNone == [j |-> "none", color |-> Absent, effect |-> Absent]
LedStr(name) == [j |-> "str", color |-> K(name), effect |-> Absent]
LedDict(color, effect) == [j |-> "dict", color |-> color, effect |-> effect]
LedBad == [j |-> "num", color |-> Absent, effect |-> Absent]

\* parse_led_config: Ok(<<>>) is the None result, Ok(<<effect, color>>) a setting
parse_led_config(led) ==
    IF led.j = "none" THEN Ok(<<>>)
    ELSE IF led.j = "str" THEN
        LET color == resolve_led_color(led.color)
        IN  IF color.ok THEN Ok(<<1, color.val>>) ELSE Raise
    ELSE IF led.j = "dict" THEN
        LET color == resolve_led_color(Get(led.color, K("red")))
            effect == resolve_led_effect(Get(led.effect, K("static")))
        IN  IF color.ok /\ effect.ok THEN Ok(<<effect.val, color.val>>) ELSE Raise
    ELSE Raise

\* ------------------------------------------------------ binding parser
\* JSON binding values
JS(toks) == [j |-> "str", toks |-> toks, key |-> Absent, mod |-> Absent, items |-> <<>>]
JD(key, mod) == [j |-> "dict", toks |-> <<>>, key |-> key, mod |-> mod, items |-> <<>>]
JL(items) == [j |-> "list", toks |-> <<>>, key |-> Absent, mod |-> Absent, items |-> items]
JN == [j |-> "num", toks |-> <<>>, key |-> Absent, mod |-> Absent, items |-> <<>>]

RECURSIVE OrModsSum(_)
\* mutant of OrMods: the codes are added (mod_val += MODIFIER[p])
OrModsSum(parts) ==
    IF parts = <<>> THEN 0
    ELSE OrModsSum(SubSeq(parts, 1, Len(parts) - 1)) + MODIFIER[parts[Len(parts)]]

RECURSIVE OrMods(_)
\* mod_val |= MODIFIER[p] over parts[:-1], all of them known
OrMods(parts) ==
    IF parts = <<>> THEN 0
    ELSE BitOr(OrMods(SubSeq(parts, 1, Len(parts) - 1)), MODIFIER[parts[Len(parts)]])

\* one keystroke (key, mod), or the ValueError
parse_single_binding(value) ==
    IF value.j = "str" THEN
        IF Len(value.toks) > 1 THEN
            LET parts == SubSeq(value.toks, 1, Len(value.toks) - 1)
            IN  IF \E i \in 1..Len(parts) : parts[i] \notin DOMAIN MODIFIER
                THEN Raise
                ELSE Ok(<<K(value.toks[Len(value.toks)]), N(OrMods(parts))>>)
        ELSE Ok(<<K(value.toks[1]), N(0)>>)
    ELSE IF value.j = "dict" THEN
        Ok(<<Get(value.key, K("none")), Get(value.mod, N(0))>>)
    ELSE Raise

\* the list of (key, mod) tuples of a binding, or the ValueError
parse_binding(value) ==
    IF value.j = "list" THEN
        LET each == [i \in 1..Len(value.items) |-> parse_single_binding(value.items[i])]
        IN  IF \A i \in 1..Len(each) : each[i].ok
            THEN Ok([i \in 1..Len(each) |-> each[i].val])
            ELSE Raise
    ELSE
        LET one == parse_single_binding(value)
        IN  IF one.ok THEN Ok(<<one.val>>) ELSE Raise

\* --------------------------------------------------- low-level helpers
\* _keycode: the HID key code, or the KeyError of an unknown name
keycode(k) ==
    IF k.t = "str" THEN (IF k.s \in DOMAIN KEY THEN Ok(KEY[k.s]) ELSE Raise)
    ELSE Ok(k.n)

\* _modifier: an unknown name gives 0
modifier(m) ==
    IF m.t = "str" THEN (IF m.s \in DOMAIN MODIFIER THEN MODIFIER[m.s] ELSE 0)
    ELSE m.n

\* mutant of make_report: the bytes are returned as given, without padding
make_report_unpadded(first_bytes) == first_bytes

make_report(first_bytes) ==
    Take(first_bytes \o Zeros(IF REPORT_SIZE > Len(first_bytes)
                              THEN REPORT_SIZE - Len(first_bytes) ELSE 0),
         REPORT_SIZE)

\* ------------------------------------------------------------- frames
\* write_button, lines 341-343: (modifier, keycode) of every (key, mod)
Resolved(keys) == [i \in 1..Len(keys) |-> <<modifier(keys[i][2]), keycode(keys[i][1]).val>>]

\* write_button raises KeyError when some key of the binding is unknown
ResolveOk(keys) == \A i \in 1..Len(keys) : keycode(keys[i][1]).ok

RECURSIVE Pairs(_)
\* the bytes appended by the loop of lines 363-365
Pairs(resolved) ==
    IF resolved = <<>> THEN <<>>
    ELSE <<And255(resolved[1][1]), And255(resolved[1][2])>> \o Pairs(Tail(resolved))

\* mutant of button_frame: the padding byte 9 is left out
button_frame_no_padding(button_id, layer, resolved) ==
    LET res == IF Len(resolved) = 0 THEN <<<<0, 0>>>> ELSE resolved
        key_count == IF Len(resolved) = 0 THEN 1 ELSE Len(resolved)
        payload == <<3, 253, And255(button_id), And255(layer), 1, 0, 0, 0, 0,
                     And255(key_count)>> \o Pairs(res)
    IN  Take(payload \o Zeros(REPORT_SIZE), REPORT_SIZE)

\* the frame write_button sends for already resolved keys, lines 345-369
button_frame(button_id, layer, resolved) ==
    LET res == IF Len(resolved) = 0 THEN <<<<0, 0>>>> ELSE resolved
        key_count == IF Len(resolved) = 0 THEN 1 ELSE Len(resolved)
        payload == <<3, 253, And255(button_id), And255(layer), 1, 0, 0, 0, 0, 0,
                     And255(key_count)>> \o Pairs(res)
        padded == payload \o Zeros(IF REPORT_SIZE > Len(payload)
                                   THEN REPORT_SIZE - Len(payload) ELSE 0)
    IN  Take(padded, REPORT_SIZE)

CommitFrame == make_report(<<3, 253, 254, 255>>)

SaveFrame == make_report(<<3, 239, 3>>)

RequestFrame(layer) == make_report(<<3, 250, 15, 3, And255(layer), 5>>)

\* the frame write_layer_config sends, lines 380-388
layer_config_frame(layer, config_byte, config_data) ==
    LET cut == Take(config_data, 60)
        data == cut \o Zeros(60 - Len(cut))
    IN  Take(<<3, 254, 176, And255(layer), And255(config_byte)>> \o data, REPORT_SIZE)

\* config_data_08 of write_all_layer_configs, lines 407-416
config_data_08(layer, ledmap) ==
    [i \in 1..60 |->
        IF i = 6 THEN 1
        ELSE IF i = 8 THEN (IF layer \in DOMAIN ledmap
                            THEN make_led_byte(ledmap[layer][1], ledmap[layer][2])
                            ELSE 17)
        ELSE 0]

\* config_data_05 of write_all_layer_configs, lines 423-426
config_data_05 ==
    [i \in 1..60 |-> IF i = 1 THEN 208 ELSE IF i = 6 THEN 1 ELSE IF i = 8 THEN 16 ELSE 0]

\* ------------------------------------------------------------ decoder
RECURSIVE DecodeKeysStrict(_, _, _)
\* mutant of DecodeKeys: the bound check is off by one (off + 2 < len(data))
DecodeKeysStrict(data, binding_type, i) ==
    IF i >= binding_type THEN <<>>
    ELSE LET off == 11 + i * 2
         IN  (IF off + 2 < Len(data) THEN <<<<data[off + 1], data[off + 2]>>>> ELSE <<>>)
             \o DecodeKeysStrict(data, binding_type, i + 1)

RECURSIVE DecodeKeysPadded(_, _, _)
\* mutant of DecodeKeys: a pair that lies beyond the response is appended as
\* (0, 0), so that the list always has binding_type pairs
DecodeKeysPadded(data, binding_type, i) ==
    IF i >= binding_type THEN <<>>
    ELSE LET off == 11 + i * 2
         IN  (IF off + 1 < Len(data) THEN <<<<data[off + 1], data[off + 2]>>>>
              ELSE <<<<0, 0>>>>)
             \o DecodeKeysPadded(data, binding_type, i + 1)

RECURSIVE DecodeKeys(_, _, _)
\* the loop of lines 463-466 from index i (0-based) on
DecodeKeys(data, binding_type, i) ==
    IF i >= binding_type THEN <<>>
    ELSE LET off == 11 + i * 2
         IN  (IF off + 1 < Len(data) THEN <<<<data[off + 1], data[off + 2]>>>> ELSE <<>>)
             \o DecodeKeys(data, binding_type, i + 1)

\* one response of at least 13 bytes: <<btn_id, <<binding_type, keys>>>>
decode_response(data) == <<data[3], <<data[11], DecodeKeys(data, data[11], 0)>>>>

\* result[btn_id] = entry
Put(result, btn_id, entry) ==
    [b \in (DOMAIN result) \cup {btn_id} |-> IF b = btn_id THEN entry ELSE result[b]]

EmptyMap == [b \in {} |-> <<>>]

\* -------------------------------------------------------------- state
VARIABLES
    mode,     \* "normal", "led" (--led) or "read" (--read)
    raw,      \* the JSON document: a sequence of layer entries
    ledargs,  \* the arguments after --led: <<color, effect>>
    has_in,   \* ep_in is not None
    pc,       \* the position of main()
    config,   \* load_config's bindings: layer -> <<<<btn_id, keys>>, ...>>
    leds,     \* layer -> <<effect, color>>
    layer,    \* the layer of the running loop
    bi,       \* index of the binding the button loop is at
    cfgbyte,  \* config byte of the layer-config write in progress
    ri,       \* iterations done of the loop of read_all_buttons
    inq,      \* what the device has queued on the IN endpoint
    result,   \* the dict read_all_buttons builds
    log,      \* history: every send, sleep and read, in order
    out       \* what was printed: a set of <<tag, number>>

vars == <<mode, raw, ledargs, has_in, pc, config, leds, layer, bi, cfgbyte,
          ri, inq, result, log, out>>

\* ------------------------------------------------------- input domain
SeqsUpTo(S, n) == UNION {[1..m -> S] : m \in 0..n}

Item(name, value) == [name |-> name, value |-> value]

LayerEntry(layer_num, led, items) == [layer |-> layer_num, led |-> led, items |-> items]

V_a == JS(<<"a">>)
V_none == JS(<<"none">>)
V_he == JL(<<JS(<<"h">>), JS(<<"e">>)>>)
V_hello == JL(<<JS(<<"h">>), JS(<<"e">>), JS(<<"l">>), JS(<<"l">>), JS(<<"o">>)>>)

\* the binding values of the value family
Values ==
    {V_a, V_none, V_he, V_hello,
     JS(<<"ctrl", "shift", "a">>), JS(<<"shift", "ctrl", "a">>),
     JS(<<"ctrl", "ctrl", "shift", "a">>),
     JD(K("c"), K("ctrl")), JD(K("a"), K("bogus")), JD(Absent, Absent),
     JD(N(4), N(2)), JD(K("none"), K("none")),
     JL(<<>>), JL(<<JS(<<"none">>), JS(<<"none">>)>>),
     JS(<<"bogus">>), JS(<<"bogus", "a">>), JN,
     JL(<<JS(<<"a">>), JS(<<"bogus">>)>>)}

\* the items of the sequencing family
SeqItems == {Item("key1", V_a), Item("key2", V_he)}

\* sequencing family: any set of layers, at most MaxBindings items in all;
\* <<>> is a layer that is absent, <<items>> one that is present
SeqFamily ==
    LET Opt == {<<>>} \cup {<<its>> : its \in SeqsUpTo(SeqItems, MaxBindings)}
        Count(c, l) == IF c[l] = <<>> THEN 0 ELSE Len(c[l][1])
        Pick(c, l) == IF c[l] = <<>> THEN <<>> ELSE <<LayerEntry(l, LedNone, c[l][1])>>
    IN  {Pick(c, 1) \o Pick(c, 2) \o Pick(c, 3) :
            c \in {d \in [1..3 -> Opt] :
                     Count(d, 1) + Count(d, 2) + Count(d, 3) <= MaxBindings}}

\* value family: one layer, key1 bound to any value, alone or after key2 = "a"
ValueFamily ==
    {<<LayerEntry(l, LedNone, pre \o <<Item("key1", v)>>)>> :
        l \in {1, 2}, v \in Values,
        pre \in {<<>>, <<Item("key2", V_a)>>, <<Item("_comment", V_a)>>}}

\* the i-th keystroke of the macros of the macro family
MacroItem(i) ==
    LET pool == <<JS(<<"a">>), JS(<<"ctrl", "b">>), JD(K("c"), K("shift")),
                  JS(<<"alt", "meta", "f24">>), JS(<<"none">>), JD(N(129), N(0))>>
    IN  pool[(i % Len(pool)) + 1]

\* macro family: layer 1, key1 bound to a macro of 0..MaxKeys keystrokes
MacroFamily ==
    {<<LayerEntry(1, LedNone,
                  <<Item("key1", JL([i \in 1..n |-> MacroItem(i + shift)]))>>)>> :
        n \in 0..MaxKeys, shift \in {0, 1}}

\* the led specs of the led family
LedSpecs ==
    {LedNone, LedStr("blue"), LedDict(K("blue"), K("wave")), LedDict(N(22), D(19)),
     LedDict(Absent, Absent), LedStr("bogus"), LedBad}

\* led family: layers with led specs, key1 = "a" in the lowest one
LedFamily ==
    {<<LayerEntry(1, l1, <<Item("key1", V_a)>>)>> \o more :
        l1 \in LedSpecs,
        more \in {<<>>} \cup {<<LayerEntry(2, l2, <<>>)>> : l2 \in LedSpecs}
                 \cup {<<LayerEntry(3, l3, <<>>)>> : l3 \in LedSpecs}}

\* range family: an entry for a layer outside 1..NUM_LAYERS
RangeFamily ==
    {pre \o <<LayerEntry(l, led, <<Item("key1", v)>>)>> \o post :
        l \in {0, 4}, led \in {LedNone, LedBad}, v \in {V_a, JN},
        pre \in {<<>>, <<LayerEntry(1, LedNone, <<Item("key1", V_a)>>)>>},
        post \in {<<>>, <<LayerEntry(3, LedNone, <<Item("key2", V_he)>>)>>}}

\* order family: the file lists layer 3 before layer 1
OrderFamily ==
    {<<LayerEntry(3, LedNone, <<Item("key1", V_a)>>),
       LayerEntry(1, LedNone, <<Item("key2", V_a)>>)>>}

RawConfigs ==
    SeqFamily \cup ValueFamily \cup MacroFamily \cup LedFamily \cup RangeFamily
    \cup OrderFamily

\* the arguments of --led: a color, and an effect or nothing
LedArgs ==
    {<<c, e>> : c \in {K("blue"), D(6), D(22), K("bogus")},
                e \in {Absent, K("wave"), D(3), K("bogus")}}

\* the responses the device may give to a readback request of a layer
Response(btn, layer_num, count, pairs, length) ==
    Take(<<3, 250, btn, layer_num, 1, 0, 0, 0, 0, 0, count>> \o Pairs(pairs)
         \o Zeros(REPORT_SIZE), length)

Data(bytes) == [k |-> "data", bytes |-> bytes]

\* the first answer: button 1 as "a", as "b", with count 0, cut to 12 and to
\* 13 bytes, with a count the response cannot hold, or a failing read
RespPool(l) ==
    {Data(Response(1, l, 1, <<<<0, 4>>>>, REPORT_SIZE)),
     Data(Response(1, l, 1, <<<<0, 5>>>>, REPORT_SIZE)),
     Data(Response(1, l, 0, <<>>, REPORT_SIZE)),
     Data(Response(1, l, 1, <<<<0, 4>>>>, 12)),
     Data(Response(1, l, 2, <<<<0, 11>>, <<0, 8>>>>, 13)),
     Data(Response(1, l, 40, <<<<0, 5>>>>, REPORT_SIZE)),
     [k |-> "error", bytes |-> <<>>]}

\* the device answers button by button: what its k-th answer may be
ResponsesOf(l, k) ==
    IF k = 1 THEN RespPool(l)
    ELSE {Data(Response(k, l, 2, <<<<0, 11>>, <<0, 8>>>>, REPORT_SIZE)),
          [k |-> "error", bytes |-> <<>>]}

\* a device that answers every button of the layer, and once more
FullQueue(l) ==
    [i \in 1..(BUTTONS_PER_LAYER + 1) |->
        Data(Response(24, l, 1, <<<<0, 0>>>>, REPORT_SIZE))]

\* reads that returned something, so far
Consumed == Cardinality({i \in DOMAIN log : log[i].ev \in {"read", "error"}})

\* the answers to one request: a failing read is the last one
DeviceQueues ==
    LET n == IF Consumed < MaxResp THEN MaxResp - Consumed ELSE 0
        all == UNION {ResponsesOf(layer, k) : k \in 1..n}
    IN  {q \in SeqsUpTo(all, n) :
            \A k \in 1..Len(q) : /\ q[k] \in ResponsesOf(layer, k)
                                 /\ q[k].k = "error" => k = Len(q)}
        \cup (IF Consumed = 0 THEN {FullQueue(layer)} ELSE {})

\* --------------------------------------------------------------- Init
Init ==
    /\ mode \in {"normal", "led", "read"}
    /\ raw \in (IF mode = "normal" THEN RawConfigs ELSE {<<>>})
    /\ ledargs \in (IF mode = "led" THEN LedArgs ELSE {<<Absent, Absent>>})
    /\ has_in \in BOOLEAN
    /\ pc = "start"
    /\ config = EmptyMap
    /\ leds = EmptyMap
    /\ layer = 0
    /\ bi = 0
    /\ cfgbyte = 0
    /\ ri = 0
    /\ inq = <<>>
    /\ result = EmptyMap
    /\ log = <<>>
    /\ out = {}

\* ------------------------------------------------------------ history
Send(data, src) == [ev |-> "send", data |-> data, src |-> src]
Sleep == [ev |-> "sleep", data |-> <<>>, src |-> <<0, 0>>]
Read(what, data) == [ev |-> what, data |-> data, src |-> <<0, 0>>]

\* send(ep, data)
send(data, src) == log' = Append(log, Send(data, src))

\* time.sleep(0.2)
sleep == log' = Append(log, Sleep)

\* -------------------------------------------------------- load_config
InRange(layer_num) == layer_num >= 1 /\ layer_num <= NUM_LAYERS

IsButton(item) == item.name \in DOMAIN BUTTON_NAMES

\* no exception while the entry of an in-range layer is parsed
EntryOk(e) ==
    /\ parse_led_config(e.led).ok
    /\ \A i \in 1..Len(e.items) : IsButton(e.items[i]) => parse_binding(e.items[i].value).ok

\* load_config raises
LoadRaises(doc) == \E i \in 1..Len(doc) : InRange(doc[i].layer) /\ ~EntryOk(doc[i])

\* the entry that wrote bindings[l] last
LastEntry(doc, l) ==
    doc[CHOOSE i \in 1..Len(doc) :
            doc[i].layer = l /\ \A j \in 1..Len(doc) : doc[j].layer = l => j <= i]

layer_bindings(e) ==
    LET buttons == SelectSeq(e.items, IsButton)
    IN  [i \in 1..Len(buttons) |->
            <<BUTTON_NAMES[buttons[i].name], parse_binding(buttons[i].value).val>>]

load_bindings(doc) ==
    [l \in {doc[i].layer : i \in {j \in 1..Len(doc) : InRange(doc[j].layer)}} |->
        layer_bindings(LastEntry(doc, l))]

load_leds(doc) ==
    LET WithLed(l) == {i \in 1..Len(doc) :
                          doc[i].layer = l /\ parse_led_config(doc[i].led).val # <<>>}
    IN  [l \in {x \in 1..NUM_LAYERS : WithLed(x) # {}} |->
            parse_led_config(doc[CHOOSE i \in WithLed(l) :
                                    \A j \in WithLed(l) : j <= i].led).val]

Ignored(doc) == {<<"IGNORED_LAYER", doc[i].layer>> :
                    i \in {j \in 1..Len(doc) : ~InRange(doc[j].layer)}}

\* ------------------------------------------------------------ actions
\* main, line 656: load_config raises ValueError, which nothing catches
LoadConfigError ==
    /\ pc = "start" /\ mode = "normal"
    /\ LoadRaises(raw)
    /\ pc' = "crashed"
    /\ UNCHANGED <<mode, raw, ledargs, has_in, config, leds, layer, bi, cfgbyte,
                   ri, inq, result, log, out>>

\* main, lines 656-659: no layer left, sys.exit(1)
LoadConfigEmpty ==
    /\ pc = "start" /\ mode = "normal"
    /\ ~LoadRaises(raw)
    /\ DOMAIN load_bindings(raw) = {}
    /\ out' = out \cup Ignored(raw) \cup {<<"NO_LAYERS", 0>>}
    /\ pc' = "exit1"
    /\ UNCHANGED <<mode, raw, ledargs, has_in, config, leds, layer, bi, cfgbyte,
                   ri, inq, result, log>>

\* main, lines 656-663
LoadConfig ==
    /\ pc = "start" /\ mode = "normal"
    /\ ~LoadRaises(raw)
    /\ DOMAIN load_bindings(raw) # {}
    /\ config' = load_bindings(raw)
    /\ leds' = load_leds(raw)
    /\ out' = out \cup Ignored(raw)
    /\ pc' = "open"
    /\ UNCHANGED <<mode, raw, ledargs, has_in, layer, bi, cfgbyte, ri, inq, result, log>>

\* the effect --led gives: led_args[1] resolved, or 1 without it
LedEffect == IF ledargs[2].t = "absent" THEN Ok(1) ELSE resolve_led_effect(ledargs[2])

\* main, lines 637-638: an unknown color or effect raises ValueError
LedArgsError ==
    /\ pc = "start" /\ mode = "led"
    /\ ~(resolve_led_color(ledargs[1]).ok /\ LedEffect.ok)
    /\ pc' = "crashed"
    /\ UNCHANGED <<mode, raw, ledargs, has_in, config, leds, layer, bi, cfgbyte,
                   ri, inq, result, log, out>>

\* main, lines 637-639
LedArgsResolve ==
    /\ pc = "start" /\ mode = "led"
    /\ resolve_led_color(ledargs[1]).ok /\ LedEffect.ok
    /\ leds' = [l \in 1..NUM_LAYERS |-> <<LedEffect.val, resolve_led_color(ledargs[1]).val>>]
    /\ pc' = "open"
    /\ UNCHANGED <<mode, raw, ledargs, has_in, config, layer, bi, cfgbyte, ri, inq,
                   result, log, out>>

\* main, line 620: --read loads nothing
ReadStart ==
    /\ pc = "start" /\ mode = "read"
    /\ pc' = "open"
    /\ UNCHANGED <<mode, raw, ledargs, has_in, config, leds, layer, bi, cfgbyte,
                   ri, inq, result, log, out>>

\* the layers the run programs
Layers == IF mode = "led" THEN 1..NUM_LAYERS ELSE DOMAIN config

Min(S) == CHOOSE x \in S : \A y \in S : x <= y

\* the layer after l in sorted(S), 0 at the end
NextLayer(S, l) == IF \E x \in S : x > l THEN Min({x \in S : x > l}) ELSE 0

\* main, lines 621-624: --read without an IN endpoint, sys.exit(1)
OpenNoIn ==
    /\ pc = "open" /\ mode = "read" /\ ~has_in
    /\ out' = out \cup {<<"NO_IN_ENDPOINT", 0>>}
    /\ pc' = "exit1"
    /\ UNCHANGED <<mode, raw, ledargs, has_in, config, leds, layer, bi, cfgbyte,
                   ri, inq, result, log>>

\* main, lines 621-625: open_device, then print_config starts with layer 1
OpenForRead ==
    /\ pc = "open" /\ mode = "read" /\ has_in
    /\ layer' = 1
    /\ pc' = "request"
    /\ UNCHANGED <<mode, raw, ledargs, has_in, config, leds, bi, cfgbyte, ri, inq,
                   result, log, out>>

\* main, lines 640-642: open_device, then write_all_layer_configs(led_only=True)
OpenForLed ==
    /\ pc = "open" /\ mode = "led"
    /\ layer' = Min(Layers)
    /\ pc' = "cfg08"
    /\ UNCHANGED <<mode, raw, ledargs, has_in, config, leds, bi, cfgbyte, ri, inq,
                   result, log, out>>

\* main, lines 665-666: open_device, then program_from_config starts
OpenForProgram ==
    /\ pc = "open" /\ mode = "normal"
    /\ layer' = Min(Layers)
    /\ bi' = 1
    /\ pc' = "buttons"
    /\ UNCHANGED <<mode, raw, ledargs, has_in, config, leds, cfgbyte, ri, inq,
                   result, log, out>>

\* ------------------------------------------------ program_from_config
\* the binding the button loop is at: <<btn_id, keys>>
Binding == config[layer][bi]

AtBinding == pc = "buttons" /\ bi <= Len(config[layer])

\* mutant of IsUnbound: the modifier is compared unresolved (keys[0][1] == 0)
IsUnboundRawModifier(keys) ==
    /\ Len(keys) = 1
    /\ keycode(keys[1][1]).ok
    /\ keycode(keys[1][1]).val = 0
    /\ keys[1][2].t = "int" /\ keys[1][2].n = 0

\* lines 513-516: a single keystroke with key code 0 and modifier 0 is skipped
IsUnbound(keys) ==
    /\ Len(keys) = 1
    /\ keycode(keys[1][1]).ok
    /\ keycode(keys[1][1]).val = 0
    /\ modifier(keys[1][2]) = 0

\* program_from_config, lines 513-516: continue
SkipUnbound ==
    /\ AtBinding
    /\ IsUnbound(Binding[2])
    /\ bi' = bi + 1
    /\ UNCHANGED <<mode, raw, ledargs, has_in, pc, config, leds, layer, cfgbyte,
                   ri, inq, result, log, out>>

\* mutant of ButtonKeyError: the KeyError is caught, the binding is passed
\* over and the loop goes on
ButtonKeyErrorSkips ==
    /\ AtBinding
    /\ ~ResolveOk(Binding[2])
    /\ bi' = bi + 1
    /\ UNCHANGED <<mode, raw, ledargs, has_in, pc, config, leds, layer, cfgbyte,
                   ri, inq, result, log, out>>

\* _keycode raises KeyError at line 514 or at line 343; nothing catches it
ButtonKeyError ==
    /\ AtBinding
    /\ ~ResolveOk(Binding[2])
    /\ pc' = "crashed"
    /\ UNCHANGED <<mode, raw, ledargs, has_in, config, leds, layer, bi, cfgbyte,
                   ri, inq, result, log, out>>

\* write_button, lines 341-369: the write frame
WriteButton ==
    /\ AtBinding
    /\ ResolveOk(Binding[2])
    /\ ~IsUnbound(Binding[2])
    /\ send(button_frame(Binding[1], layer, Resolved(Binding[2])), <<layer, bi>>)
    /\ pc' = "btn_commit"
    /\ UNCHANGED <<mode, raw, ledargs, has_in, config, leds, layer, bi, cfgbyte,
                   ri, inq, result, out>>

\* mutant of ButtonCommit: write_button returns to its delay without the commit
ButtonCommitSkipped ==
    /\ pc = "btn_commit"
    /\ pc' = "btn_settle"
    /\ UNCHANGED <<mode, raw, ledargs, has_in, config, leds, layer, bi, cfgbyte,
                   ri, inq, result, log, out>>

\* write_button, line 372
ButtonCommit ==
    /\ pc = "btn_commit"
    /\ send(CommitFrame, <<layer, bi>>)
    /\ pc' = "btn_settle"
    /\ UNCHANGED <<mode, raw, ledargs, has_in, config, leds, layer, bi, cfgbyte,
                   ri, inq, result, out>>

\* mutant of ButtonSettle: the loop steps over the next binding
ButtonSettleSkipNext ==
    /\ pc = "btn_settle"
    /\ sleep
    /\ bi' = bi + 2
    /\ pc' = "buttons"
    /\ UNCHANGED <<mode, raw, ledargs, has_in, config, leds, layer, cfgbyte,
                   ri, inq, result, out>>

\* write_button, line 375, and the loop goes on
ButtonSettle ==
    /\ pc = "btn_settle"
    /\ sleep
    /\ bi' = bi + 1
    /\ pc' = "buttons"
    /\ UNCHANGED <<mode, raw, ledargs, has_in, config, leds, layer, cfgbyte,
                   ri, inq, result, out>>

\* lines 508-511: the bindings of the layer are done, the next layer follows
NextLayerButtons ==
    /\ pc = "buttons" /\ bi > Len(config[layer])
    /\ NextLayer(Layers, layer) # 0
    /\ layer' = NextLayer(Layers, layer)
    /\ bi' = 1
    /\ UNCHANGED <<mode, raw, ledargs, has_in, pc, config, leds, cfgbyte,
                   ri, inq, result, log, out>>

\* lines 525-529: all layers are done, write_all_layer_configs starts
ButtonsDone ==
    /\ pc = "buttons" /\ bi > Len(config[layer])
    /\ NextLayer(Layers, layer) = 0
    /\ layer' = Min(Layers)
    /\ pc' = "cfg08"
    /\ UNCHANGED <<mode, raw, ledargs, has_in, config, leds, bi, cfgbyte,
                   ri, inq, result, log, out>>

\* -------------------------------------------- write_all_layer_configs
led_only == mode = "led"

\* line 418: write_layer_config(ep, layer, 0x08, config_data_08), the write frame
WriteConfig08 ==
    /\ pc = "cfg08"
    /\ send(layer_config_frame(layer, 8, config_data_08(layer, leds)), <<layer, 0>>)
    /\ cfgbyte' = 8
    /\ pc' = "cfg_commit"
    /\ UNCHANGED <<mode, raw, ledargs, has_in, config, leds, layer, bi,
                   ri, inq, result, out>>

\* mutant of WriteConfig05: the LED byte of the 0x08 frame is mirrored into
\* the 0x05 frame
WriteConfig05MirrorsLed ==
    /\ pc = "cfg05"
    /\ send(layer_config_frame(layer, 5,
                [i \in 1..60 |-> IF i = 1 THEN 208
                                 ELSE config_data_08(layer, leds)[i]]),
            <<layer, 0>>)
    /\ cfgbyte' = 5
    /\ pc' = "cfg_commit"
    /\ UNCHANGED <<mode, raw, ledargs, has_in, config, leds, layer, bi,
                   ri, inq, result, out>>

\* line 427: write_layer_config(ep, layer, 0x05, config_data_05), the write frame
WriteConfig05 ==
    /\ pc = "cfg05"
    /\ send(layer_config_frame(layer, 5, config_data_05), <<layer, 0>>)
    /\ cfgbyte' = 5
    /\ pc' = "cfg_commit"
    /\ UNCHANGED <<mode, raw, ledargs, has_in, config, leds, layer, bi,
                   ri, inq, result, out>>

\* write_layer_config, line 391
ConfigCommit ==
    /\ pc = "cfg_commit"
    /\ send(CommitFrame, <<layer, 0>>)
    /\ pc' = "cfg_settle"
    /\ UNCHANGED <<mode, raw, ledargs, has_in, config, leds, layer, bi, cfgbyte,
                   ri, inq, result, out>>

\* mutant of AfterConfig: save_to_board is called inside the loop over the layers
AfterConfigSaveEachLayer ==
    IF cfgbyte = 8 /\ ~led_only THEN <<"cfg05", layer>> ELSE <<"save", layer>>

\* mutant of AfterConfig: the 0x05 write is skipped as in LED-only mode
AfterConfigNo05 ==
    IF NextLayer(Layers, layer) # 0 THEN <<"cfg08", NextLayer(Layers, layer)>>
    ELSE <<"save", layer>>

\* mutant of AfterConfig: only layers with a written button get their
\* layer-config frames after the first one
AfterConfigSkipsEmptyLayers ==
    LET written == IF led_only THEN Layers
                   ELSE {l \in Layers :
                            \E b \in 1..Len(config[l]) : ~IsUnbound(config[l][b][2])}
    IN  IF cfgbyte = 8 /\ ~led_only THEN <<"cfg05", layer>>
        ELSE IF NextLayer(written, layer) # 0 THEN <<"cfg08", NextLayer(written, layer)>>
        ELSE <<"save", layer>>

\* where write_all_layer_configs goes after a write_layer_config returned
AfterConfig ==
    IF cfgbyte = 8 /\ ~led_only THEN <<"cfg05", layer>>
    ELSE IF NextLayer(Layers, layer) # 0 THEN <<"cfg08", NextLayer(Layers, layer)>>
    ELSE <<"save", layer>>

\* mutant of ConfigSettle: write_layer_config returns without its delay
ConfigSettleNoSleep ==
    /\ pc = "cfg_settle"
    /\ pc' = AfterConfig[1]
    /\ layer' = AfterConfig[2]
    /\ UNCHANGED <<mode, raw, ledargs, has_in, config, leds, bi, cfgbyte,
                   ri, inq, result, log, out>>

\* write_layer_config, line 392, and lines 405-427 go on
ConfigSettle ==
    /\ pc = "cfg_settle"
    /\ sleep
    /\ pc' = AfterConfig[1]
    /\ layer' = AfterConfig[2]
    /\ UNCHANGED <<mode, raw, ledargs, has_in, config, leds, bi, cfgbyte,
                   ri, inq, result, out>>

\* save_to_board, line 434
Save ==
    /\ pc = "save"
    /\ send(SaveFrame, <<0, 0>>)
    /\ pc' = "save_settle"
    /\ UNCHANGED <<mode, raw, ledargs, has_in, config, leds, layer, bi, cfgbyte,
                   ri, inq, result, out>>

\* mutant of SaveSettleDone: main verifies without testing ep_in
SaveSettleDoneVerifies ==
    /\ pc = "save_settle"
    /\ led_only \/ ~has_in
    /\ sleep
    /\ pc' = IF led_only THEN "done" ELSE "request"
    /\ layer' = IF led_only THEN layer ELSE 1
    /\ UNCHANGED <<mode, raw, ledargs, has_in, config, leds, bi, cfgbyte,
                   ri, inq, result, out>>

\* save_to_board, line 435; then main ends (line 645, or line 670 without ep_in)
SaveSettleDone ==
    /\ pc = "save_settle"
    /\ led_only \/ ~has_in
    /\ sleep
    /\ pc' = "done"
    /\ UNCHANGED <<mode, raw, ledargs, has_in, config, leds, layer, bi, cfgbyte,
                   ri, inq, result, out>>

\* save_to_board, line 435; then main verifies: read_all_buttons(ep_out, ep_in, 1)
SaveSettleVerify ==
    /\ pc = "save_settle"
    /\ ~led_only /\ has_in
    /\ sleep
    /\ layer' = 1
    /\ pc' = "request"
    /\ UNCHANGED <<mode, raw, ledargs, has_in, config, leds, bi, cfgbyte,
                   ri, inq, result, out>>

\* --------------------------------------------------- read_all_buttons
\* line 449: the request; the device queues its answer on IN
ReadRequest ==
    /\ pc = "request"
    /\ send(RequestFrame(layer), <<layer, 0>>)
    /\ \E q \in DeviceQueues : inq' = inq \o q
    /\ ri' = 0
    /\ result' = EmptyMap
    /\ pc' = "reading"
    /\ UNCHANGED <<mode, raw, ledargs, has_in, config, leds, layer, bi, cfgbyte, out>>

\* line 452: range(BUTTONS_PER_LAYER) is exhausted
ReadLoopEnd ==
    /\ pc = "reading" /\ ri >= BUTTONS_PER_LAYER
    /\ pc' = "readdone"
    /\ UNCHANGED <<mode, raw, ledargs, has_in, config, leds, layer, bi, cfgbyte,
                   ri, inq, result, log, out>>

\* mutant of ReadTimeout: USBTimeoutError is not caught in the loop
ReadTimeoutRaises ==
    /\ pc = "reading" /\ ri < BUTTONS_PER_LAYER
    /\ inq = <<>>
    /\ log' = Append(log, Read("timeout", <<>>))
    /\ pc' = "crashed"
    /\ UNCHANGED <<mode, raw, ledargs, has_in, config, leds, layer, bi, cfgbyte,
                   ri, inq, result, out>>

\* lines 454-456: USBTimeoutError, break
ReadTimeout ==
    /\ pc = "reading" /\ ri < BUTTONS_PER_LAYER
    /\ inq = <<>>
    /\ log' = Append(log, Read("timeout", <<>>))
    /\ pc' = "readdone"
    /\ UNCHANGED <<mode, raw, ledargs, has_in, config, leds, layer, bi, cfgbyte,
                   ri, inq, result, out>>

\* mutant of ReadError: main has no try around the verification, the error of
\* ep_in.read ends the run
ReadErrorUncaught ==
    /\ pc = "reading" /\ ri < BUTTONS_PER_LAYER
    /\ inq # <<>> /\ Head(inq).k = "error"
    /\ log' = Append(log, Read("error", <<>>))
    /\ inq' = Tail(inq)
    /\ pc' = "crashed"
    /\ UNCHANGED <<mode, raw, ledargs, has_in, config, leds, layer, bi, cfgbyte,
                   ri, result, out>>

\* line 454: ep_in.read raises another error: main catches it at line 692 when
\* verifying, and nothing catches it under --read
ReadError ==
    /\ pc = "reading" /\ ri < BUTTONS_PER_LAYER
    /\ inq # <<>> /\ Head(inq).k = "error"
    /\ log' = Append(log, Read("error", <<>>))
    /\ inq' = Tail(inq)
    /\ pc' = IF mode = "read" THEN "crashed" ELSE "done"
    /\ out' = IF mode = "read" THEN out ELSE out \cup {<<"VERIFY_READ_FAILED", 0>>}
    /\ UNCHANGED <<mode, raw, ledargs, has_in, config, leds, layer, bi, cfgbyte,
                   ri, result>>

\* lines 457-458: a response shorter than 13 bytes, continue
ReadShort ==
    /\ pc = "reading" /\ ri < BUTTONS_PER_LAYER
    /\ inq # <<>> /\ Head(inq).k = "data"
    /\ Len(Head(inq).bytes) < 13
    /\ log' = Append(log, Read("read", Head(inq).bytes))
    /\ inq' = Tail(inq)
    /\ ri' = ri + 1
    /\ UNCHANGED <<mode, raw, ledargs, has_in, pc, config, leds, layer, bi, cfgbyte,
                   result, out>>

\* lines 460-467: the response is decoded into result
ReadDecode ==
    /\ pc = "reading" /\ ri < BUTTONS_PER_LAYER
    /\ inq # <<>> /\ Head(inq).k = "data"
    /\ Len(Head(inq).bytes) >= 13
    /\ log' = Append(log, Read("read", Head(inq).bytes))
    /\ inq' = Tail(inq)
    /\ result' = Put(result, decode_response(Head(inq).bytes)[1],
                     decode_response(Head(inq).bytes)[2])
    /\ ri' = ri + 1
    /\ UNCHANGED <<mode, raw, ledargs, has_in, pc, config, leds, layer, bi, cfgbyte, out>>

\* ------------------------------------------------------- verification
\* mutant of Mismatch: the first keystroke is compared whatever the length
\* of the binding (no len(expected_keys) == 1 test)
MismatchAnyLength(i) ==
    LET btn_id == config[1][i][1]
        expected_keys == config[1][i][2]
    IN  /\ btn_id \in DOMAIN result
        /\ expected_keys # <<>>
        /\ result[btn_id][2] # <<>>
        /\ result[btn_id][2][1] #
              <<modifier(expected_keys[1][2]), keycode(expected_keys[1][1]).val>>

\* lines 678-689: binding i of layer 1 gets a WARNING
Mismatch(i) ==
    LET btn_id == config[1][i][1]
        expected_keys == config[1][i][2]
    IN  /\ btn_id \in DOMAIN result
        /\ Len(expected_keys) = 1
        /\ result[btn_id][2] # <<>>
        /\ result[btn_id][2][1] #
              <<modifier(expected_keys[1][2]), keycode(expected_keys[1][1]).val>>

\* what lines 676-691 print
VerifyOutput ==
    IF 1 \in DOMAIN config
    THEN LET bad == {i \in 1..Len(config[1]) : Mismatch(i)}
         IN  {<<"WARNING", i>> : i \in bad}
             \cup (IF bad = {} THEN {<<"VERIFIED_OK", 0>>} ELSE {})
    ELSE {}

\* main, lines 675-695, after read_all_buttons returned
VerifyCompare ==
    /\ pc = "readdone" /\ mode = "normal"
    /\ out' = out \cup VerifyOutput
    /\ pc' = "done"
    /\ UNCHANGED <<mode, raw, ledargs, has_in, config, leds, layer, bi, cfgbyte,
                   ri, inq, result, log>>

\* ------------------------------------------------------- print_config
\* lines 482-483: the entry is shown, it is not unbound
Shown(entry) ==
    ~(entry[1] = 0 \/ (entry[1] = 1 /\ entry[2] # <<>> /\ entry[2][1] = <<0, 0>>))

\* mutant of PrintLayer: a layer without response ends print_config (return
\* in place of continue)
PrintLayerStopsOnNoResponse ==
    /\ pc = "readdone" /\ mode = "read"
    /\ out' = out \cup (IF DOMAIN result = {} THEN {<<"NO_RESPONSE", layer>>}
                        ELSE {<<"BUTTON", b>> : b \in {x \in DOMAIN result : Shown(result[x])}})
    /\ IF layer < NUM_LAYERS /\ DOMAIN result # {}
       THEN layer' = layer + 1 /\ pc' = "request"
       ELSE layer' = layer /\ pc' = "done"
    /\ UNCHANGED <<mode, raw, ledargs, has_in, config, leds, bi, cfgbyte,
                   ri, inq, result, log>>

\* print_config, lines 474-495, after read_all_buttons returned for the layer
PrintLayer ==
    /\ pc = "readdone" /\ mode = "read"
    /\ out' = out \cup (IF DOMAIN result = {} THEN {<<"NO_RESPONSE", layer>>}
                        ELSE {<<"BUTTON", b>> : b \in {x \in DOMAIN result : Shown(result[x])}})
    /\ IF layer < NUM_LAYERS
       THEN layer' = layer + 1 /\ pc' = "request"
       ELSE layer' = layer /\ pc' = "done"
    /\ UNCHANGED <<mode, raw, ledargs, has_in, config, leds, bi, cfgbyte,
                   ri, inq, result, log>>

\* ---------------------------------------------------------------- Next
Next ==
    \/ LoadConfigError
    \/ LoadConfigEmpty
    \/ LoadConfig
    \/ LedArgsError
    \/ LedArgsResolve
    \/ ReadStart
    \/ OpenNoIn
    \/ OpenForRead
    \/ OpenForLed
    \/ OpenForProgram
    \/ SkipUnbound
    \/ ButtonKeyError
    \/ WriteButton
    \/ ButtonCommit
    \/ ButtonSettle
    \/ NextLayerButtons
    \/ ButtonsDone
    \/ WriteConfig08
    \/ WriteConfig05
    \/ ConfigCommit
    \/ ConfigSettle
    \/ Save
    \/ SaveSettleDone
    \/ SaveSettleVerify
    \/ ReadRequest
    \/ ReadLoopEnd
    \/ ReadTimeout
    \/ ReadError
    \/ ReadShort
    \/ ReadDecode
    \/ VerifyCompare
    \/ PrintLayer

Spec == Init /\ [][Next]_vars

\* ------------------------------------------------- reading the history
IsSend(e) == e.ev = "send"
IsCommit(e) == IsSend(e) /\ e.data[2] = 253 /\ e.data[3] = 254 /\ e.data[4] = 255
IsButtonWrite(e) == IsSend(e) /\ e.data[2] = 253 /\ ~(e.data[3] = 254 /\ e.data[4] = 255)
IsLayerConfig(e) == IsSend(e) /\ e.data[2] = 254 /\ e.data[3] = 176
IsWrite(e) == IsButtonWrite(e) \/ IsLayerConfig(e)
IsSave(e) == IsSend(e) /\ e.data[2] = 239
IsRequest(e) == IsSend(e) /\ e.data[2] = 250
IsSleep(e) == e.ev = "sleep"

\* positions of the history that satisfy P
Where(P(_)) == {i \in DOMAIN log : P(log[i])}

\* button-write frames of layer l; layer-config frames of layer l with config byte c
ButtonWritesOf(l) == {i \in DOMAIN log : IsButtonWrite(log[i]) /\ log[i].data[4] = l}
ConfigsOf(l, c) ==
    {i \in DOMAIN log : IsLayerConfig(log[i]) /\ log[i].data[4] = l /\ log[i].data[5] = c}

Max(S) == CHOOSE x \in S : \A y \in S : y <= x

\* C1: in the frames of any run, every button-write and every layer-config
\* frame is immediately followed by a Commit frame (nothing at all is sent,
\* slept or read in between, and a run never stops on a write), and every
\* Commit frame directly follows a write.
C1_WriteThenCommit ==
    /\ \A i \in DOMAIN log :
          /\ (IsWrite(log[i]) /\ i < Len(log)) => IsCommit(log[i + 1])
          /\ IsCommit(log[i]) => (i > 1 /\ IsWrite(log[i - 1]))
    /\ (log # <<>> /\ IsWrite(log[Len(log)])) => pc \in {"btn_commit", "cfg_commit"}
    /\ pc \in {"btn_commit", "cfg_commit"} => (log # <<>> /\ IsWrite(log[Len(log)]))

C1_Witness ==
    /\ pc = "done"
    /\ \E i \in 1..(Len(log) - 1) : IsButtonWrite(log[i]) /\ IsCommit(log[i + 1])
    /\ \E i \in 1..(Len(log) - 1) : IsLayerConfig(log[i]) /\ IsCommit(log[i + 1])

\* C2: after every Commit frame and after the Save-to-flash frame the next
\* step of the run is the settling sleep, so no frame of any kind is sent
\* before the delay; a run never stops between the frame and its delay.
C2_SettleAfterCommit ==
    /\ \A i \in DOMAIN log :
          ((IsCommit(log[i]) \/ IsSave(log[i])) /\ i < Len(log)) => IsSleep(log[i + 1])
    /\ (log # <<>> /\ (IsCommit(log[Len(log)]) \/ IsSave(log[Len(log)])))
          => pc \in {"btn_settle", "cfg_settle", "save_settle"}
    /\ \A i \in DOMAIN log :
          (IsSend(log[i]) /\ ~IsCommit(log[i]) /\ ~IsRequest(log[i]) /\ i > 1)
             => IsSleep(log[i - 1])

C2_Witness ==
    /\ pc = "done" /\ mode = "normal"
    /\ \E i \in 1..(Len(log) - 2) :
          IsSave(log[i]) /\ IsSleep(log[i + 1]) /\ IsRequest(log[i + 2])
    /\ \E i \in 1..(Len(log) - 2) :
          IsCommit(log[i]) /\ IsSleep(log[i + 1]) /\ IsButtonWrite(log[i + 2])

\* C3: a run never sends more than one Save-to-flash frame; the frame comes
\* right after the commit and the delay of the last layer-config frame of the
\* highest layer, after every write of the run, and no write, layer-config or
\* commit frame follows it; a programming run (normal or LED-only) that ends
\* normally has sent it exactly once.
C3_SaveOnce ==
    LET saves == Where(IsSave)
    IN  /\ Cardinality(saves) <= 1
        /\ \A s \in saves :
              /\ s > 3
              /\ IsSleep(log[s - 1]) /\ IsCommit(log[s - 2]) /\ IsLayerConfig(log[s - 3])
              /\ log[s - 3].data[4] = Max(Layers)
              /\ log[s - 3].data[5] = (IF led_only THEN 8 ELSE 5)
              /\ \A i \in DOMAIN log : (IsWrite(log[i]) \/ IsCommit(log[i])) => i < s
        /\ (pc = "done" /\ mode # "read") => Cardinality(saves) = 1
        /\ mode = "read" => saves = {}

C3_Witness ==
    /\ pc = "done" /\ mode = "normal"
    /\ Cardinality(DOMAIN config) >= 2
    /\ Cardinality(Where(IsSave)) = 1
    /\ Cardinality(Where(IsLayerConfig)) >= 4

\* the binding is written, it is not the single keystroke (0, 0)
IsBound(keys) == ~(Len(keys) = 1 /\ Resolved(keys) = <<<<0, 0>>>>)

\* C4: for each layer L of the configuration, every button-write frame for L
\* is sent before the first layer-config frame for L, and once layer-config
\* frames are being sent the number of button-write frames for L is the
\* number of bound bindings of L.
C4_ButtonsBeforeConfig ==
    \A l \in DOMAIN config :
        LET writes == ButtonWritesOf(l)
            configs == {j \in DOMAIN log : IsLayerConfig(log[j]) /\ log[j].data[4] = l}
        IN  /\ \A i \in writes :
                  /\ i + 2 <= Len(log) => (IsCommit(log[i + 1]) /\ IsSleep(log[i + 2]))
                  /\ \A j \in configs : i + 2 < j
            /\ (\E j \in DOMAIN log : IsLayerConfig(log[j])) =>
                  Cardinality(writes) =
                     Cardinality({b \in 1..Len(config[l]) : IsBound(config[l][b][2])})

C4_Witness ==
    /\ pc = "done"
    /\ \E l \in DOMAIN config :
          /\ Cardinality(ButtonWritesOf(l)) = 1
          /\ Len(config[l]) = 2
          /\ ConfigsOf(l, 8) # {}

\* C5: a finished programming run has sent, for each programmed layer,
\* exactly one layer-config frame with config byte 0x08 and, in normal mode,
\* exactly one with config byte 0x05, which is the next frame after the
\* commit and delay of the 0x08 frame of that layer; in LED-only mode no
\* 0x05 frame and no button-write frame is ever sent; no run sends a
\* layer-config frame for another layer or with another config byte.
C5_LayerConfigPairs ==
    /\ \A i \in Where(IsLayerConfig) :
          log[i].data[4] \in Layers /\ log[i].data[5] \in {8, 5}
    /\ \A l \in Layers :
          LET c8 == ConfigsOf(l, 8)
              c5 == ConfigsOf(l, 5)
          IN  /\ Cardinality(c8) <= 1
              /\ Cardinality(c5) <= 1
              /\ \A j \in c5 :
                    /\ j > 3 /\ j - 3 \in c8
                    /\ IsCommit(log[j - 2]) /\ IsSleep(log[j - 1])
              /\ (pc = "done" /\ mode # "read") => Cardinality(c8) = 1
              /\ (pc = "done" /\ mode = "normal") => Cardinality(c5) = 1
              /\ led_only => c5 = {}
    /\ led_only => \A i \in DOMAIN log : ~IsButtonWrite(log[i])

C5_Witness ==
    /\ pc = "done" /\ mode = "normal"
    /\ Cardinality(DOMAIN config) = 3
    /\ \A l \in DOMAIN config : ConfigsOf(l, 8) # {} /\ ConfigsOf(l, 5) # {}

C5_WitnessLed ==
    /\ pc = "done" /\ led_only
    /\ \A l \in 1..NUM_LAYERS : ConfigsOf(l, 8) # {}

\* the keys of the binding a frame was sent for
SrcKeys(e) == config[e.src[1]][e.src[2]][2]
SrcButton(e) == config[e.src[1]][e.src[2]][1]

\* pairs of (modifier, key) that fit after the 11 header bytes of a frame
Capacity == (REPORT_SIZE - 11) \div 2

\* C6 (as claimed): a binding of more than 27 keystrokes is rejected before
\* any frame is built: no button-write frame and no commit is sent for it.
C6_CapacityRejected ==
    \A i \in DOMAIN log :
        (IsSend(log[i]) /\ log[i].src[2] >= 1) => Len(SrcKeys(log[i])) <= Capacity

\* what the code does with such a binding: the frame carries the full count
\* and the first 27 pairs, cut at 65 bytes
C6_CodeTruncates ==
    \A i \in Where(IsButtonWrite) :
        Len(SrcKeys(log[i])) > Capacity =>
            /\ Len(log[i].data) = REPORT_SIZE
            /\ log[i].data[11] = Len(SrcKeys(log[i]))
            /\ decode_response(log[i].data)[2][2]
                  = SubSeq(Resolved(SrcKeys(log[i])), 1, Capacity)

\* the binding resolves to the single keystroke keyCode = 0, modifier = 0
ResolvesToNone(keys) == Len(keys) = 1 /\ ResolveOk(keys) /\ Resolved(keys) = <<<<0, 0>>>>

\* C7: during programming no frame, button-write or commit, is sent for a
\* binding that resolves to keyCode = 0 and modifier = 0, and every
\* button-write frame sent carries the button id of a binding of its layer
\* that does not resolve so.
C7_UnboundNotWritten ==
    /\ \A l \in DOMAIN config : \A b \in 1..Len(config[l]) :
          ResolvesToNone(config[l][b][2]) => \A i \in DOMAIN log : log[i].src # <<l, b>>
    /\ \A i \in Where(IsButtonWrite) :
          \E b \in 1..Len(config[log[i].data[4]]) :
             /\ config[log[i].data[4]][b][1] = log[i].data[3]
             /\ ~ResolvesToNone(config[log[i].data[4]][b][2])

C7_Witness ==
    /\ pc = "done"
    /\ Where(IsButtonWrite) # {}
    /\ \E l \in DOMAIN config : \E b \in 1..Len(config[l]) :
          /\ ResolvesToNone(config[l][b][2])
          /\ config[l][b][2][1][2].t = "str"

ValidPairs(resolved) ==
    \A i \in 1..Len(resolved) : resolved[i][1] \in 0..255 /\ resolved[i][2] \in 0..255

\* C8: for every binding of 1..27 (modifier, key) pairs, decoding the
\* button-write frame sent for it with the readback decoder gives the
\* button id, count = the length of the binding, and the same pairs in order.
C8_RoundTrip ==
    \A i \in Where(IsButtonWrite) :
        LET keys == SrcKeys(log[i])
        IN  (Len(keys) >= 1 /\ Len(keys) <= Capacity /\ ValidPairs(Resolved(keys))) =>
               decode_response(log[i].data)
                  = <<SrcButton(log[i]), <<Len(keys), Resolved(keys)>>>>

C8_Witness ==
    \E i \in Where(IsButtonWrite) :
        /\ Len(SrcKeys(log[i])) = Capacity
        /\ Len(decode_response(log[i].data)[2][2]) = Capacity
        /\ pc = "done"

\* C9: the button-write frame of a binding of n keystrokes, 1 <= n <= 27, is
\* 03 FD buttonId layer 01 00 00 00 00 00 n, then the n (modifier, key) pairs
\* in the order of the binding, then zeros up to 65 bytes; an empty binding
\* is sent as n = 1 with the pair (0, 0); buttonId 1, layer 1, key "a" gives
\* 03 FD 01 01 01 00 00 00 00 00 01 00 04 and 52 zero bytes, and h,e,l,l,o
\* gives count byte 5.
C9_ButtonFrameLayout ==
    \A i \in Where(IsButtonWrite) :
        LET f == log[i].data
            keys == SrcKeys(log[i])
            res == IF keys = <<>> THEN <<<<0, 0>>>> ELSE Resolved(keys)
            n == Len(res)
        IN  /\ n <= Capacity =>
                 /\ Len(f) = 65
                 /\ f[1] = 3 /\ f[2] = 253
                 /\ f[3] = SrcButton(log[i]) /\ f[4] = log[i].src[1]
                 /\ f[5] = 1
                 /\ \A k \in 6..10 : f[k] = 0
                 /\ f[11] = n
                 /\ \A k \in 1..n : f[10 + 2 * k] = res[k][1] /\ f[11 + 2 * k] = res[k][2]
                 /\ \A k \in (12 + 2 * n)..65 : f[k] = 0
            /\ (SrcButton(log[i]) = 1 /\ log[i].src[1] = 1 /\ keys = <<<<K("a"), N(0)>>>>) =>
                 f = <<3, 253, 1, 1, 1, 0, 0, 0, 0, 0, 1, 0, 4>> \o Zeros(52)
            /\ keys = <<<<K("h"), N(0)>>, <<K("e"), N(0)>>, <<K("l"), N(0)>>,
                        <<K("l"), N(0)>>, <<K("o"), N(0)>>>> =>
                 (f[11] = 5 /\ SubSeq(f, 12, 21) = <<0, 11, 0, 8, 0, 15, 0, 15, 0, 18>>)

C9_Witness ==
    /\ pc = "done"
    /\ \E i \in Where(IsButtonWrite) :
          log[i].data = <<3, 253, 1, 1, 1, 0, 0, 0, 0, 0, 1, 0, 4>> \o Zeros(52)

C9_WitnessHello ==
    \E i \in Where(IsButtonWrite) :
        Len(SrcKeys(log[i])) = 5 /\ log[i].data[11] = 5 /\ log[i].data[21] = 18

C9_WitnessEmpty ==
    \E i \in Where(IsButtonWrite) :
        SrcKeys(log[i]) = <<>> /\ log[i].data[11] = 1 /\ pc = "done"

\* the verification of main ran to its end
VerifyRan ==
    /\ pc = "done" /\ mode = "normal" /\ has_in
    /\ <<"VERIFY_READ_FAILED", 0>> \notin out

\* binding i of layer 1 is a single keystroke, its button has a readback
\* entry, and the entry does not match it: the entry's first keystroke is
\* another one, or the entry has no keystroke while the binding is not (0, 0)
Unmatched(i) ==
    LET btn_id == config[1][i][1]
        keys == config[1][i][2]
    IN  /\ Len(keys) = 1
        /\ btn_id \in DOMAIN result
        /\ IF result[btn_id][2] = <<>>
           THEN Resolved(keys)[1] # <<0, 0>>
           ELSE result[btn_id][2][1] # Resolved(keys)[1]

\* C10 (as claimed): verification warns of, and does not print "All verified
\* OK" for, every single-keystroke binding of layer 1 whose button has a
\* readback entry that does not match the intended (modifier, key).
C10_MismatchWarned ==
    (VerifyRan /\ 1 \in DOMAIN config) =>
        \A i \in 1..Len(config[1]) :
            Unmatched(i) => (<<"WARNING", i>> \in out /\ <<"VERIFIED_OK", 0>> \notin out)

\* what the code does: it warns exactly when the entry has a first keystroke
\* and that keystroke differs; a warning never ends the run abnormally
C10_CodeWarns ==
    /\ (VerifyRan /\ 1 \in DOMAIN config) =>
          /\ \A i \in 1..Len(config[1]) :
                <<"WARNING", i>> \in out <=>
                   (Unmatched(i) /\ result[config[1][i][1]][2] # <<>>)
          /\ <<"VERIFIED_OK", 0>> \in out <=> \A i \in 1..Len(config[1]) : <<"WARNING", i>> \notin out
    /\ (\E w \in out : w[1] = "WARNING") => pc = "done"

\* binding i of layer 1 is not compared by the verification: it is a macro,
\* or its button has no entry in the readback
NotCompared(i) ==
    Len(config[1][i][2]) > 1 \/ config[1][i][1] \notin DOMAIN result

\* C11: verification never warns of a mismatch for a binding of layer 1 that
\* is a macro (more than one keystroke) or whose button id has no entry in
\* the readback, whatever the device returned; when no other binding is
\* warned of, "All verified OK" is printed in spite of such bindings.
C11_MacroNeverMismatch ==
    1 \in DOMAIN config =>
        \A i \in 1..Len(config[1]) :
            NotCompared(i) =>
                /\ <<"WARNING", i>> \notin out
                /\ (VerifyRan /\ \A j \in 1..Len(config[1]) : <<"WARNING", j>> \notin out)
                      => <<"VERIFIED_OK", 0>> \in out

\* a macro on a button whose readback entry starts with another keystroke
C11_Witness ==
    /\ VerifyRan /\ 1 \in DOMAIN config
    /\ <<"VERIFIED_OK", 0>> \in out
    /\ \E i \in 1..Len(config[1]) :
          /\ Len(config[1][i][2]) > 1
          /\ config[1][i][1] \in DOMAIN result
          /\ result[config[1][i][1]][2] # <<>>
          /\ result[config[1][i][1]][2][1] # Resolved(config[1][i][2])[1]

\* a single keystroke on a button the readback has no entry for
C11_WitnessNoEntry ==
    /\ VerifyRan /\ 1 \in DOMAIN config
    /\ <<"VERIFIED_OK", 0>> \in out
    /\ result # EmptyMap
    /\ \E i \in 1..Len(config[1]) :
          Len(config[1][i][2]) = 1 /\ config[1][i][1] \notin DOMAIN result

\* C12: in a programming run the readback request of the verification is
\* sent only after the Save-to-flash frame and its settling delay, at most
\* once (exactly once in a normal run that ends with an IN endpoint), for
\* layer 1 only, and no frame of any kind is sent after it; an LED-only run
\* sends none; a read that fails during verification ends the run normally
\* with a message, it does not abort it.
C12_VerifyAfterSave ==
    /\ mode = "led" => \A i \in DOMAIN log : ~IsRequest(log[i])
    /\ mode = "normal" =>
          LET requests == Where(IsRequest)
          IN  /\ Cardinality(requests) <= 1
              /\ \A r \in requests :
                    /\ r > 2 /\ IsSleep(log[r - 1]) /\ IsSave(log[r - 2])
                    /\ log[r].data[5] = 1
                    /\ \A j \in DOMAIN log : IsSend(log[j]) => j <= r
              /\ (pc = "done" /\ has_in) => Cardinality(requests) = 1
              /\ (\E j \in DOMAIN log : log[j].ev = "error") =>
                    (pc = "done" /\ <<"VERIFY_READ_FAILED", 0>> \in out)

\* the read of the verification failed and the run ended normally
C12_Witness ==
    /\ mode = "normal" /\ pc = "done"
    /\ Where(IsButtonWrite) # {}
    /\ log[Len(log)].ev = "error"
    /\ IsRequest(log[Len(log) - 1]) /\ IsSleep(log[Len(log) - 2]) /\ IsSave(log[Len(log) - 3])

\* the verification read an entry and compared it
C12_WitnessCompared ==
    /\ VerifyRan /\ result # EmptyMap
    /\ Cardinality(Where(IsRequest)) = 1
    /\ Cardinality(DOMAIN config) >= 2

\* the reads that returned data for the request at position r of the history
ReadsOf(r) ==
    {j \in (r + 1)..Len(log) :
        log[j].ev = "read" /\ \A k \in (r + 1)..j : ~IsRequest(log[k])}

\* C13: a readback of a layer sends the one request frame 03 FA 0F 03 layer 05
\* (zero padded) and then reads at most 24 responses; a timeout ends the
\* reads of that request, the readback returns normally, and its result is
\* exactly the entries of the responses read so far: one entry per button id
\* of the responses of 13 bytes or more, from the last such response of the
\* button; a response shorter than 13 bytes adds nothing.
C13_ReadbackLoop ==
    /\ \A r \in Where(IsRequest) :
          /\ log[r].src[1] \in 1..NUM_LAYERS
          /\ log[r].data = <<3, 250, 15, 3, log[r].src[1], 5>> \o Zeros(REPORT_SIZE - 6)
          /\ Cardinality(ReadsOf(r)) <= BUTTONS_PER_LAYER
    /\ \A j \in DOMAIN log :
          log[j].ev = "timeout" =>
             /\ j > 1 /\ (IsRequest(log[j - 1]) \/ log[j - 1].ev = "read")
             /\ j < Len(log) => IsRequest(log[j + 1])
    /\ (log # <<>> /\ log[Len(log)].ev = "timeout") => pc \in {"readdone", "request", "done"}
    /\ Where(IsRequest) # {} =>
          LET long == {j \in ReadsOf(Max(Where(IsRequest))) : Len(log[j].data) >= 13}
          IN  /\ DOMAIN result = {log[j].data[3] : j \in long}
              /\ \A b \in DOMAIN result :
                    LET f == log[Max({j \in long : log[j].data[3] = b})].data
                    IN  /\ result[b][1] = f[11]
                        /\ (f[11] >= 1) => result[b][2][1] = <<f[12], f[13]>>

\* a short response, then the timeout: nothing is returned
C13_Witness ==
    /\ pc = "readdone"
    /\ Len(log) > 2
    /\ log[Len(log)].ev = "timeout"
    /\ log[Len(log) - 1].ev = "read" /\ Len(log[Len(log) - 1].data) < 13
    /\ IsRequest(log[Len(log) - 2])
    /\ result = EmptyMap

\* a device that keeps answering is read 24 times
C13_WitnessFull ==
    /\ pc = "readdone"
    /\ inq # <<>>
    /\ Cardinality(ReadsOf(Max(Where(IsRequest)))) = BUTTONS_PER_LAYER

\* an entry, then the timeout
C13_WitnessPartial ==
    /\ pc = "readdone"
    /\ log[Len(log)].ev = "timeout"
    /\ result # EmptyMap

\* the run is over
Ended == pc \in {"done", "crashed", "exit1"}

\* C14 (as claimed): a run whose configuration holds a malformed binding or a
\* malformed LED spec reports it and goes on: it does not end abnormally, the
\* valid bindings of the in-range layers are still written and the
\* Save-to-flash frame is still sent.
C14_ConfigErrorSkipped ==
    (mode = "normal" /\ LoadRaises(raw) /\ Ended) =>
        /\ pc = "done"
        /\ \E i \in DOMAIN log : IsSave(log[i])
        /\ \A e \in 1..Len(raw) : \A k \in 1..Len(raw[e].items) :
              LET item == raw[e].items[k]
              IN  (/\ InRange(raw[e].layer) /\ IsButton(item)
                   /\ parse_binding(item.value).ok
                   /\ ResolveOk(parse_binding(item.value).val)
                   /\ IsBound(parse_binding(item.value).val)) =>
                      \E i \in ButtonWritesOf(raw[e].layer) :
                          log[i].data[3] = BUTTON_NAMES[item.name]

\* what the code does: the ValueError of a malformed binding or LED spec of
\* an in-range layer leaves load_config and main, nothing at all is sent;
\* only an entry of a layer outside 1..3 is reported and skipped, whatever
\* it holds, and the run goes on
C14_CodeAborts ==
    /\ (mode = "normal" /\ LoadRaises(raw) /\ pc # "start") => (pc = "crashed" /\ log = <<>>)
    /\ (mode = "normal" /\ ~LoadRaises(raw) /\ pc # "start") =>
          /\ \A e \in 1..Len(raw) :
                ~InRange(raw[e].layer) =>
                   /\ <<"IGNORED_LAYER", raw[e].layer>> \in out
                   /\ \A i \in DOMAIN log : ~(IsWrite(log[i]) /\ log[i].data[4] = raw[e].layer)
          /\ pc = "done" => (DOMAIN config # {} /\ \E i \in DOMAIN log : IsSave(log[i]))

\* a run with an out-of-range entry holding a malformed binding and LED spec
\* programmed the other layers and saved
C14_WitnessRange ==
    /\ mode = "normal" /\ pc = "done"
    /\ \E e \in 1..Len(raw) : ~InRange(raw[e].layer) /\ ~EntryOk(raw[e])
    /\ Cardinality(DOMAIN config) = 2
    /\ Where(IsButtonWrite) # {}

\* the (key, mod) tuple names a key or a modifier that the tables do not have
NamesUnknown(km) ==
    \/ km[1].t = "str" /\ km[1].s \notin DOMAIN KEY
    \/ km[2].t = "str" /\ km[2].s \notin DOMAIN MODIFIER

\* C15 (as claimed): a binding that names an unknown modifier or an unknown
\* key yields an error: no button-write frame is ever sent for it, and a run
\* whose configuration holds one does not end normally.
C15_UnknownNameErrors ==
    /\ \A i \in Where(IsButtonWrite) :
          \A k \in 1..Len(SrcKeys(log[i])) : ~NamesUnknown(SrcKeys(log[i])[k])
    /\ pc = "done" =>
          \A l \in DOMAIN config : \A b \in 1..Len(config[l]) :
              \A k \in 1..Len(config[l][b][2]) : ~NamesUnknown(config[l][b][2][k])

\* what the code does: an unknown key name is never written (KeyError), an
\* unknown modifier name of the object form is written as modifier byte 0
C15_CodeResolves ==
    \A i \in Where(IsButtonWrite) :
        \A k \in 1..Len(SrcKeys(log[i])) :
            LET km == SrcKeys(log[i])[k]
            IN  /\ km[1].t = "str" => km[1].s \in DOMAIN KEY
                /\ (k <= Capacity /\ km[2].t = "str" /\ km[2].s \notin DOMAIN MODIFIER)
                      => log[i].data[10 + 2 * k] = 0

\* the object form with an unknown modifier name was written and the run
\* ended normally
C15_WitnessWritten ==
    /\ pc = "done"
    /\ \E i \in Where(IsButtonWrite) :
          /\ SrcKeys(log[i]) = <<<<K("a"), K("bogus")>>>>
          /\ log[i].data[12] = 0 /\ log[i].data[13] = 4

\* the JSON value of the binding a button-write frame was sent for
SrcValue(e) == SelectSeq(LastEntry(raw, e.src[1]).items, IsButton)[e.src[2]].value

\* a string of the form m1+m2+...+key
IsCompound(v) == v.j = "str" /\ Len(v.toks) > 1

\* the bitwise OR of the modifiers a compound string names: every modifier
\* code is 0 or a single bit, so the OR is the sum of the distinct codes
\* named, whatever their order and however often they are named
OrOfNamed(v) ==
    LET codes == {MODIFIER[v.toks[i]] : i \in 1..(Len(v.toks) - 1)}
    IN  (IF 1 \in codes THEN 1 ELSE 0) + (IF 2 \in codes THEN 2 ELSE 0)
        + (IF 4 \in codes THEN 4 ELSE 0) + (IF 8 \in codes THEN 8 ELSE 0)

\* C16: a compound binding "m1+m2+...+key" is written as the single
\* keystroke whose modifier byte is the bitwise OR of the modifiers named and
\* whose key byte is the code of the last token, so every permutation and
\* duplication of the modifier tokens gives the same bytes; ctrl+shift+a,
\* shift+ctrl+a and ctrl+ctrl+shift+a give modifier 0x03 and key 0x04; a
\* compound keystroke inside a macro is encoded the same way at its place.
C16_CompoundOr ==
    \A i \in Where(IsButtonWrite) :
        LET v == SrcValue(log[i])
            f == log[i].data
        IN  /\ IsCompound(v) =>
                  /\ f[11] = 1
                  /\ f[12] = OrOfNamed(v)
                  /\ f[13] = KEY[v.toks[Len(v.toks)]]
                  /\ \A k \in 14..REPORT_SIZE : f[k] = 0
            /\ v \in {JS(<<"ctrl", "shift", "a">>), JS(<<"shift", "ctrl", "a">>),
                      JS(<<"ctrl", "ctrl", "shift", "a">>)} => (f[12] = 3 /\ f[13] = 4)
            /\ v.j = "list" =>
                  \A k \in 1..Len(v.items) :
                      (k <= Capacity /\ IsCompound(v.items[k])) =>
                          /\ f[10 + 2 * k] = OrOfNamed(v.items[k])
                          /\ f[11 + 2 * k] = KEY[v.items[k].toks[Len(v.items[k].toks)]]

\* a modifier named twice
C16_Witness ==
    /\ pc = "done"
    /\ \E i \in Where(IsButtonWrite) :
          /\ SrcValue(log[i]) = JS(<<"ctrl", "ctrl", "shift", "a">>)
          /\ log[i].data[12] = 3 /\ log[i].data[13] = 4

\* the two orders of ctrl and shift
C16_WitnessOrder ==
    \E i \in Where(IsButtonWrite) :
        /\ SrcValue(log[i]) = JS(<<"shift", "ctrl", "a">>)
        /\ log[i].data[12] = 3 /\ log[i].data[13] = 4

\* alt+meta+f24 inside a macro
C16_WitnessMacro ==
    \E i \in Where(IsButtonWrite) :
        /\ SrcValue(log[i]).j = "list" /\ Len(SrcValue(log[i]).items) >= 3
        /\ \E k \in 1..3 : /\ SrcValue(log[i]).items[k] = JS(<<"alt", "meta", "f24">>)
                           /\ log[i].data[10 + 2 * k] = 12

\* the led spec of the last entry of layer l that has one, when the
\* configuration was loaded from a file
RawLed(l) ==
    LET with == {i \in 1..Len(raw) : raw[i].layer = l /\ raw[i].led # LedNone}
    IN  IF with = {} THEN LedNone ELSE raw[Max(with)].led

\* C17: in the layer-config frame with config byte 0x08 of layer L, frame
\* byte 12 (offset 7 of the config data) is color * 16 + effect, each taken
\* modulo 16, of the LED setting of L, and 0x11 when L has none; the byte is
\* within 0..255; effect 3 with color 6 (blue, wave; also color 22 and
\* effect 19, which are masked to 6 and 3) gives 0x63, and a color name alone
\* gives effect 1.  The history only grows, so every frame is looked at in
\* the state reached by sending it, where it is the last entry.
C17_LedByte ==
    /\ make_led_byte(3, 6) = 99
    /\ (log # <<>> /\ IsLayerConfig(log[Len(log)]) /\ log[Len(log)].data[5] = 8) =>
             LET l == log[Len(log)].data[4]
                 b == log[Len(log)].data[13]
             IN  /\ b \in 0..255
                 /\ b = (IF l \in DOMAIN leds
                         THEN (leds[l][2] % 16) * 16 + (leds[l][1] % 16)
                         ELSE 17)
                 /\ mode = "normal" =>
                       /\ RawLed(l) = LedNone => b = 17
                       /\ RawLed(l) \in {LedDict(K("blue"), K("wave")), LedDict(N(22), D(19))}
                             => b = 99
                       /\ RawLed(l) = LedStr("blue") => b = 97
                 /\ (mode = "led" /\ ledargs \in {<<K("blue"), K("wave")>>, <<D(22), D(3)>>})
                       => b = 99

\* a layer with blue, wave and a layer without LED setting in one run
C17_Witness ==
    /\ pc = "done" /\ mode = "normal"
    /\ \E i \in Where(IsLayerConfig) :
          /\ log[i].data[5] = 8 /\ log[i].data[13] = 99
          /\ RawLed(log[i].data[4]) = LedDict(K("blue"), K("wave"))
    /\ \E i \in Where(IsLayerConfig) :
          /\ log[i].data[5] = 8 /\ log[i].data[13] = 17
          /\ log[i].data[4] \notin DOMAIN leds

\* numbers above 15 are masked
C17_WitnessMasked ==
    \E i \in Where(IsLayerConfig) :
        /\ log[i].data[5] = 8 /\ log[i].data[13] = 99
        /\ RawLed(log[i].data[4]) = LedDict(N(22), D(19))

\* C18: without an IN endpoint a --read run ends with exit status 1 before
\* any frame is sent; a programming run is not stopped by it: it ends
\* abnormally only for what its configuration holds, a run that ends
\* normally has written every bound binding and both layer-config frames of
\* every layer and sent the one Save-to-flash frame, and only the
\* verification is left out: no readback request, no read, no verdict.
C18_NoInEndpoint ==
    ~has_in =>
        /\ \A i \in DOMAIN log : IsSend(log[i]) \/ IsSleep(log[i])
        /\ \A i \in DOMAIN log : ~IsRequest(log[i])
        /\ mode = "read" =>
              /\ log = <<>>
              /\ pc \in {"start", "open", "exit1"}
              /\ pc = "exit1" => <<"NO_IN_ENDPOINT", 0>> \in out
        /\ mode # "read" =>
              /\ <<"NO_IN_ENDPOINT", 0>> \notin out
              /\ \A w \in out : w[1] \in {"IGNORED_LAYER", "NO_LAYERS"}
              /\ pc = "exit1" => (mode = "normal" /\ DOMAIN load_bindings(raw) = {})
              /\ (pc = "crashed" /\ mode = "normal") =>
                    \/ LoadRaises(raw)
                    \/ \E l \in DOMAIN config : \E b \in 1..Len(config[l]) :
                          ~ResolveOk(config[l][b][2])
              /\ pc = "done" =>
                    /\ Len(log) > 1 /\ IsSleep(log[Len(log)]) /\ IsSave(log[Len(log) - 1])
                    /\ Cardinality(Where(IsSave)) = 1
                    /\ \A l \in Layers : ConfigsOf(l, 8) # {}
                    /\ mode = "normal" =>
                          \A l \in Layers :
                              /\ ConfigsOf(l, 5) # {}
                              /\ Cardinality(ButtonWritesOf(l)) =
                                   Cardinality({b \in 1..Len(config[l]) :
                                                   IsBound(config[l][b][2])})

\* a programming run of two bindings without IN endpoint ended normally
C18_Witness ==
    /\ ~has_in /\ mode = "normal" /\ pc = "done"
    /\ Cardinality(Where(IsButtonWrite)) = 2
    /\ Cardinality(Where(IsSave)) = 1

\* --read without IN endpoint
C18_WitnessRead ==
    ~has_in /\ mode = "read" /\ pc = "exit1" /\ log = <<>>

\* the number of leading bytes of a frame that carry its content
Meaningful(e) ==
    IF IsCommit(e) THEN 4
    ELSE IF IsButtonWrite(e) THEN 11 + 2 * e.data[11]
    ELSE IF IsLayerConfig(e) THEN 13
    ELSE IF IsSave(e) THEN 3
    ELSE 6

\* C19: every frame sent, of every type (button write, commit, layer
\* config, save, readback request) and for every input, a binding of more
\* than 27 keystrokes included, is exactly 65 bytes long, begins with 0x03,
\* is one of the five types, and is zero after its meaningful content.
\* The history only grows, so every frame is looked at in the state reached
\* by sending it, where it is the last entry.
C19_FrameShape ==
    (log # <<>> /\ IsSend(log[Len(log)])) =>
        LET e == log[Len(log)]
        IN  /\ Len(e.data) = REPORT_SIZE
            /\ e.data[1] = 3
            /\ IsCommit(e) \/ IsButtonWrite(e) \/ IsLayerConfig(e) \/ IsSave(e) \/ IsRequest(e)
            /\ Meaningful(e) < REPORT_SIZE =>
                  SubSeq(e.data, Meaningful(e) + 1, REPORT_SIZE)
                     = Zeros(REPORT_SIZE - Meaningful(e))

\* a run that sent all five types, the button write for a macro of more
\* than 27 keystrokes
C19_Witness ==
    /\ pc = "done" /\ mode = "normal"
    /\ Where(IsRequest) # {} /\ Where(IsSave) # {}
    /\ \E i \in Where(IsButtonWrite) :
          /\ Len(SrcKeys(log[i])) > Capacity
          /\ Len(log[i].data) = REPORT_SIZE
          /\ log[i].data[REPORT_SIZE] # 0

\* C20 (as claimed): the keystroke list of every readback entry has exactly
\* count pairs, for every response of at least 13 bytes and every value of
\* its count byte.
C20_ExactlyCountPairs ==
    \A b \in DOMAIN result : Len(result[b][2]) = result[b][1]

\* the pairs that lie wholly inside a response of the given length
PairsInside(length) == (length - 11) \div 2

\* C20 (amended): the readback entry of a response of at least 13 bytes is
\* (count, keystrokes) with count = byte[10] and keystrokes the first
\* min(count, (length - 11) div 2) pairs (byte[11 + 2k], byte[12 + 2k]), in
\* order; it has exactly count pairs whenever the response holds them all,
\* which is so for every count up to 27 in a 65-byte response.  The history
\* only grows, so every response is looked at in the state reached by
\* reading it, where it is the last entry.
C20_PairsWithinResponse ==
    (log # <<>> /\ log[Len(log)].ev = "read" /\ Len(log[Len(log)].data) >= 13) =>
        LET f == log[Len(log)].data
            n == IF f[11] <= PairsInside(Len(f)) THEN f[11] ELSE PairsInside(Len(f))
        IN  /\ f[3] \in DOMAIN result
            /\ result[f[3]][1] = f[11]
            /\ Len(result[f[3]][2]) = n
            /\ \A k \in 1..n : result[f[3]][2][k] = <<f[10 + 2 * k], f[11 + 2 * k]>>
            /\ 11 + 2 * f[11] <= Len(f) => Len(result[f[3]][2]) = f[11]

\* a response of 13 bytes that announces 2 keystrokes gives one pair
C20_Witness ==
    /\ log # <<>> /\ log[Len(log)].ev = "read"
    /\ Len(log[Len(log)].data) = 13 /\ log[Len(log)].data[11] = 2
    /\ 1 \in DOMAIN result
    /\ result[1] = <<2, <<<<0, 11>>>>>>

\* a response of 65 bytes that announces 40 keystrokes gives 27 pairs
C20_WitnessFull ==
    /\ pc = "readdone"
    /\ 1 \in DOMAIN result
    /\ result[1][1] = 40 /\ Len(result[1][2]) = Capacity

\* C21: the layer-config frame with config byte 0x05 of layer L is the fixed
\* frame 03 FE B0 L 05 D0 00 00 00 00 01 00 10 and zeros, whatever the LED
\* settings of the run, and the frame with config byte 0x08 is
\* 03 FE B0 L 08 00 00 00 00 00 01 00 xx and zeros, where only xx (offset 7
\* of the config data) comes from the LED settings: two runs that differ
\* only in LED settings send the same 0x05 frames, and their 0x08 frames
\* differ at that byte only.  The history only grows, so every frame is
\* looked at in the state reached by sending it, where it is the last entry.
C21_SentinelFrame ==
    (log # <<>> /\ IsLayerConfig(log[Len(log)])) =>
        LET f == log[Len(log)].data
            l == log[Len(log)].src[1]
        IN  /\ l \in 1..NUM_LAYERS
            /\ f[5] = 5 =>
                  f = <<3, 254, 176, l, 5, 208, 0, 0, 0, 0, 1, 0, 16>> \o Zeros(52)
            /\ f[5] = 8 =>
                  /\ SubSeq(f, 1, 12) = <<3, 254, 176, l, 8, 0, 0, 0, 0, 0, 1, 0>>
                  /\ SubSeq(f, 14, REPORT_SIZE) = Zeros(52)

\* a layer with the LED setting blue, wave: its 0x08 frame carries 0x63 and
\* its 0x05 frame is the sentinel
C21_Witness ==
    /\ pc = "done" /\ mode = "normal"
    /\ 1 \in DOMAIN leds
    /\ \E i \in ConfigsOf(1, 8) : log[i].data[13] = 99
    /\ \E i \in ConfigsOf(1, 5) :
          log[i].data = <<3, 254, 176, 1, 5, 208, 0, 0, 0, 0, 1, 0, 16>> \o Zeros(52)

\* the same configuration without LED setting: 0x11 in the 0x08 frame
C21_WitnessDefault ==
    /\ pc = "done" /\ mode = "normal"
    /\ leds = EmptyMap /\ Len(raw) = 1
    /\ \E i \in ConfigsOf(1, 8) : log[i].data[13] = 17
    /\ \E i \in ConfigsOf(1, 5) : log[i].data[13] = 16

\* the in-range layers of the configuration file
RawLayers == {raw[e].layer : e \in {x \in 1..Len(raw) : InRange(raw[x].layer)}}

\* C22: a programming run has global phases.  When a button-write frame is
\* sent, no layer-config and no save frame has been sent, and every earlier
\* button write is of a lower layer or of an earlier binding of the same
\* layer, the bindings counted in the order of the configuration file.  When
\* a layer-config frame is sent, every bound binding of every layer has been
\* written, the lower layers have their layer-config frames and no higher
\* layer has one.  When the save frame is sent, every in-range layer of the
\* configuration has its 0x08 and 0x05 frames, also a layer without a bound
\* button.  (Each frame is looked at in the state reached by sending it.)
C22_GlobalPhases ==
    log # <<>> =>
        LET e == log[Len(log)]
            before == 1..(Len(log) - 1)
        IN  /\ IsButtonWrite(e) =>
                  /\ mode = "normal"
                  /\ e.data[4] = e.src[1]
                  /\ e.data[3] = BUTTON_NAMES[SelectSeq(LastEntry(raw, e.src[1]).items,
                                                        IsButton)[e.src[2]].name]
                  /\ \A i \in before :
                        /\ ~IsLayerConfig(log[i]) /\ ~IsSave(log[i])
                        /\ IsButtonWrite(log[i]) =>
                              \/ log[i].src[1] < e.src[1]
                              \/ log[i].src[1] = e.src[1] /\ log[i].src[2] < e.src[2]
            /\ IsLayerConfig(e) =>
                  /\ e.data[4] \in Layers
                  /\ mode = "normal" =>
                        \A l \in DOMAIN config :
                            Cardinality({i \in before : IsButtonWrite(log[i])
                                                        /\ log[i].data[4] = l})
                               = Cardinality({b \in 1..Len(config[l]) :
                                                 IsBound(config[l][b][2])})
                  /\ \A i \in before :
                        /\ ~IsSave(log[i])
                        /\ IsLayerConfig(log[i]) =>
                              \/ log[i].data[4] < e.data[4]
                              \/ /\ log[i].data[4] = e.data[4]
                                 /\ log[i].data[5] = 8 /\ e.data[5] = 5
                  /\ \A l \in Layers :
                        l < e.data[4] =>
                           \E i \in before : /\ IsLayerConfig(log[i]) /\ log[i].data[4] = l
                                             /\ log[i].data[5] = (IF led_only THEN 8 ELSE 5)
            /\ (IsSave(e) /\ mode = "normal") =>
                  /\ RawLayers = DOMAIN config
                  /\ \A l \in RawLayers : ConfigsOf(l, 8) # {} /\ ConfigsOf(l, 5) # {}

\* layers 1 and 3 with one bound button each, layer 2 present without any:
\* two button writes, then the six layer-config frames, then the save
C22_Witness ==
    /\ pc = "done" /\ mode = "normal"
    /\ DOMAIN config = {1, 2, 3}
    /\ config[2] = <<>>
    /\ ButtonWritesOf(1) # {} /\ ButtonWritesOf(3) # {}
    /\ ConfigsOf(2, 8) # {} /\ ConfigsOf(2, 5) # {}
    /\ \A i \in ButtonWritesOf(3) : \A j \in ConfigsOf(1, 8) : i < j

\* the file lists layer 3 first: layer 1 is still written first
C22_WitnessOrder ==
    /\ pc = "done" /\ mode = "normal"
    /\ raw[1].layer = 3 /\ Len(raw) = 2 /\ raw[2].layer = 1
    /\ \A i \in ButtonWritesOf(1) : \A j \in ButtonWritesOf(3) : i < j
    /\ ButtonWritesOf(1) # {} /\ ButtonWritesOf(3) # {}
    /\ \A i \in ConfigsOf(1, 5) : \A j \in ConfigsOf(3, 8) : i < j

\* some key of binding b of layer l has an unknown name
UnknownKey(l, b) == ~ResolveOk(config[l][b][2])

\* binding <<l2, b2>> comes before binding <<l, b>> in the order of the run
Earlier(l2, b2, l, b) == l2 < l \/ (l2 = l /\ b2 < b)

\* C23: no frame, write or commit, is ever sent for a binding with an unknown
\* key name; a run whose configuration holds one ends abnormally when it
\* reaches the first of them: by then every bound binding before it has its
\* button-write frame, commit and delay, nothing else has been sent, and so
\* no layer-config frame and no save frame is sent at all (nothing is rolled
\* back, nothing is finished).
C23_AbortNoRollback ==
    mode = "normal" =>
        /\ \A l \in DOMAIN config : \A b \in 1..Len(config[l]) :
              UnknownKey(l, b) =>
                 /\ \A i \in DOMAIN log : log[i].src # <<l, b>>
                 /\ \A i \in DOMAIN log : ~IsLayerConfig(log[i]) /\ ~IsSave(log[i])
                 /\ pc # "done"
        /\ (pc = "crashed" /\ ~LoadRaises(raw)) =>
              /\ bi \in 1..Len(config[layer]) /\ UnknownKey(layer, bi)
              /\ \A l \in DOMAIN config : \A b \in 1..Len(config[l]) :
                    Earlier(l, b, layer, bi) =>
                       /\ ~UnknownKey(l, b)
                       /\ IsBound(config[l][b][2]) =>
                             \E i \in 1..(Len(log) - 2) :
                                /\ IsButtonWrite(log[i]) /\ log[i].src = <<l, b>>
                                /\ IsCommit(log[i + 1]) /\ IsSleep(log[i + 2])
              /\ \A i \in DOMAIN log :
                    /\ IsSend(log[i]) => (IsButtonWrite(log[i]) \/ IsCommit(log[i]))
                    /\ Earlier(log[i].src[1], log[i].src[2], layer, bi)

\* key2 = "a" was written, then key1 names an unknown key: the run ended
\* abnormally after one button write, its commit and its delay
C23_Witness ==
    /\ pc = "crashed" /\ mode = "normal"
    /\ Len(log) = 3
    /\ IsButtonWrite(log[1]) /\ IsCommit(log[2]) /\ IsSleep(log[3])
    /\ bi = 2 /\ UnknownKey(layer, bi)

\* the unknown key is the second keystroke of a macro
C23_WitnessMacro ==
    /\ pc = "crashed" /\ mode = "normal" /\ ~LoadRaises(raw)
    /\ Len(config[layer][bi][2]) = 2
    /\ ResolveOk(<<config[layer][bi][2][1]>>)
    /\ log # <<>>

\* C24: a --read run never modifies the device: every frame it sends is a
\* readback request, it never sleeps, the k-th request is the one of layer
\* k, there are at most three, each is followed by at most 24 reads that
\* all come before the next request, and a run that ends normally has sent
\* exactly the three of them, also when a layer gave no response (nothing,
\* or only responses shorter than 13 bytes).
C24_ReadOnly ==
    mode = "read" =>
        LET requests == Where(IsRequest)
        IN  /\ \A i \in DOMAIN log :
                  /\ ~IsSleep(log[i])
                  /\ IsSend(log[i]) =>
                        /\ IsRequest(log[i])
                        /\ ~IsWrite(log[i]) /\ ~IsCommit(log[i]) /\ ~IsSave(log[i])
            /\ Cardinality(requests) <= NUM_LAYERS
            /\ \A r \in requests :
                  /\ log[r].data[5] = Cardinality({j \in requests : j <= r})
                  /\ Cardinality(ReadsOf(r)) <= BUTTONS_PER_LAYER
            /\ (log # <<>>) => IsRequest(log[1])
            /\ pc = "done" =>
                  /\ Cardinality(requests) = NUM_LAYERS
                  /\ \A l \in 1..NUM_LAYERS :
                        <<"NO_RESPONSE", l>> \in out =>
                           \E r \in requests :
                              /\ log[r].data[5] = l
                              /\ \A j \in ReadsOf(r) : Len(log[j].data) < 13

\* layer 1 gave no response; the requests of layers 2 and 3 followed
C24_Witness ==
    /\ mode = "read" /\ pc = "done"
    /\ <<"NO_RESPONSE", 1>> \in out
    /\ Len(log) >= 6
    /\ IsRequest(log[1]) /\ log[2].ev = "timeout" /\ IsRequest(log[3])
    /\ log[3].data[5] = 2
    /\ \E i \in DOMAIN log : log[i].ev = "read"
    /\ Cardinality(Where(IsRequest)) = 3

\* the device answered 25 times: 24 reads for layer 1, one for layer 2
C24_WitnessFull ==
    /\ mode = "read" /\ pc = "done"
    /\ Cardinality(ReadsOf(1)) = BUTTONS_PER_LAYER
    /\ IsRequest(log[BUTTONS_PER_LAYER + 2])
    /\ log[BUTTONS_PER_LAYER + 3].ev = "read"

====
